---------------------------- MODULE Spec2Model ----------------------------
(***************************************************************************)
(* A model of meshtext: the glyph mesh generator (src/src/lib.rs,          *)
(* src/src/mesh_generator.rs) and the outline builder                      *)
(* (src/src/outline_builder.rs).                                           *)
(*                                                                         *)
(* Two specifications live in this module.  Spec drives the mesh           *)
(* generators over one glyph of a face; SpecBuilder drives one             *)
(* OutlineBuilder through a stream of drawing commands.                    *)
(*                                                                         *)
(* f32 values are modelled as exact rationals <<n, d>> (d > 0, lowest      *)
(* terms): rounding is left out, every other arithmetic step is kept.      *)
(***************************************************************************)
EXTENDS Integers, Sequences, FiniteSets, TLC

(***************************************************************************)
(* Bounds of the model.                                                    *)
(***************************************************************************)
\* most triangles a front-face tessellation holds
MaxTris == 2
\* most vertices a front-face tessellation holds
MaxVerts == 4
\* the face's height in font units (face.height())
FaceHeight == 2
\* most drawing commands one glyph's stream holds
MaxCmds == 4
\* largest number of interpolation steps a quality setting asks for
MaxSteps == 3

VARIABLES
    glyph,      \* the glyph of the face the generator is asked for: what
                \* outline_glyph and the tessellator answer for it
    call,       \* the last call made on the generator: its name and flat flag
    result,     \* what that call returned: Ok(mesh) or Err(error)
    edge_set,   \* the boundary edge set the last call found (generate_mesh's local)
    quality,          \* OutlineBuilder.quality
    contours,         \* OutlineBuilder.contours
    current_contour,  \* OutlineBuilder.current_contour
    points,           \* OutlineBuilder.points
    current_point,    \* OutlineBuilder.current_point
    status,           \* the builder: "building", "panicked" or "consumed"
    outline,          \* what into_outline returned, once it has
    stream            \* the drawing commands issued so far, in order

meshVars == <<glyph, call, result, edge_set>>

builderVars ==
    <<quality, contours, current_contour, points, current_point, status, outline, stream>>

vars == <<meshVars, builderVars>>

(***************************************************************************)
(* Rational arithmetic standing for f32.                                   *)
(***************************************************************************)
Abs(n) == IF n < 0 THEN -n ELSE n

RECURSIVE GCD(_, _)
GCD(a, b) == IF b = 0 THEN a ELSE GCD(b, a % b)

\* the rational n/d in lowest terms with a positive denominator
Q(n, d) ==
    LET s == IF d < 0 THEN -1 ELSE 1
        g == GCD(Abs(n), Abs(d))
    IN  <<(s * n) \div g, (s * d) \div g>>

RInt(n) == <<n, 1>>
RNeg(a) == <<-a[1], a[2]>>
RAdd(a, b) ==
    LET d == (a[2] \div GCD(a[2], b[2])) * b[2]
    IN  Q(a[1] * (d \div a[2]) + b[1] * (d \div b[2]), d)
RSub(a, b) == RAdd(a, RNeg(b))
RMul(a, b) == Q(a[1] * b[1], a[2] * b[2])
RDiv(a, b) == Q(a[1] * b[2], a[2] * b[1])

(***************************************************************************)
(* Sequence helpers.                                                       *)
(***************************************************************************)
RECURSIVE Flatten(_)
Flatten(ss) == IF ss = <<>> THEN <<>> ELSE Head(ss) \o Flatten(Tail(ss))

\* slice.array_chunks::<3>(): the whole chunks of three, a remainder dropped
array_chunks(s) ==
    [k \in 1..(Len(s) \div 3) |-> <<s[3 * k - 2], s[3 * k - 1], s[3 * k]>>]

Range(s) == {s[k] : k \in 1..Len(s)}

(***************************************************************************)
(* The glyphs of the model.  A glyph either has no outline, or has one     *)
(* that the tessellator fails on, or has one that tessellates into a       *)
(* front face: nv vertices and an index buffer of triangles over them.     *)
(* The tessellator's triangles do not overlap, so no undirected edge       *)
(* lies in more than two of them; each triangle is listed from its         *)
(* smallest index, in either winding.                                      *)
(***************************************************************************)
Triangles ==
    {t \in (0..(MaxVerts - 1)) \X (0..(MaxVerts - 1)) \X (0..(MaxVerts - 1)) :
        t[1] < t[2] /\ t[1] < t[3] /\ t[2] # t[3]}

TriSeqs == UNION {[1..n -> Triangles] : n \in 0..MaxTris}

\* the undirected edge {a, b} as the key the code stores: (min, max)
Key(a, b) == IF b < a THEN <<b, a>> ELSE <<a, b>>

TriKeys(t) == {Key(t[1], t[2]), Key(t[2], t[3]), Key(t[3], t[1])}

\* how many triangles of the list have the undirected edge k
EdgeCount(ts, k) == Cardinality({i \in 1..Len(ts) : k \in TriKeys(ts[i])})

AllKeys(ts) == UNION {TriKeys(ts[i]) : i \in 1..Len(ts)}

UsedVerts(ts) == UNION {{ts[i][1], ts[i][2], ts[i][3]} : i \in 1..Len(ts)}

IsTessellation(ts) ==
    /\ \A k \in AllKeys(ts) : EdgeCount(ts, k) <= 2
    /\ UsedVerts(ts) = 0..(Cardinality(UsedVerts(ts)) - 1)

Tessellations == {ts \in TriSeqs : IsTessellation(ts)}

\* the font-reported rectangle of a glyph with an outline, in font units
Rects == {[x_min |-> -1, y_min |-> 0, x_max |-> 3, y_max |-> 1]}

NoOutline ==
    [outline |-> FALSE, tess_ok |-> FALSE, nv |-> 0, indices |-> <<>>,
     rect |-> [x_min |-> 0, y_min |-> 0, x_max |-> 0, y_max |-> 0]]

Glyphs ==
    {NoOutline} \cup
    {[outline |-> TRUE, tess_ok |-> ok, nv |-> Cardinality(UsedVerts(ts)),
      indices |-> Flatten(ts), rect |-> rc] :
        ok \in BOOLEAN, ts \in Tessellations, rc \in Rects}

\* the position of front vertex i in font units: the corners of unit squares
\* laid side by side, (0,0), (1,0), (1,1), (0,1), (2,0), (3,0), ...
Position(i) ==
    <<(IF i % 4 \in {1, 2} THEN 1 ELSE 0) + 2 * (i \div 4),
      IF i % 4 \in {2, 3} THEN 1 ELSE 0>>


(***************************************************************************)
(* Values of the library: BoundingBox, Mesh, Result.                       *)
(***************************************************************************)
Zero == RInt(0)

\* z of the front cap of an extruded mesh: the literal 0.5
Half == Q(1, 2)

BoundingBox_new(mins, maxs) == [mins |-> mins, maxs |-> maxs]

\* #[derive(Default)]: every f32 is 0.0
BoundingBox_default == [mins |-> <<Zero, Zero, Zero>>, maxs |-> <<Zero, Zero, Zero>>]

\* #[derive(Default)]: default box, empty buffers
Mesh_default == [bbox |-> BoundingBox_default, indices |-> <<>>, vertices |-> <<>>]

Ok(v) == [tag |-> "Ok", mesh |-> v]

Err(e) == [tag |-> "Err", error |-> e]

\* no call made yet
NoResult == [tag |-> "None"]

(***************************************************************************)
(* lib.rs: MeshGenerator::generate_mesh.                                   *)
(***************************************************************************)
\* let scale = 1. / self.face.height() as f32
scale == Q(1, FaceHeight)

\* z_of with the flat flag ignored
z_extruded(flat) == Half

\* let z = if flat {0.0} else {0.5}
z_of(flat) == IF flat THEN Zero ELSE Half

\* the box built from the font-reported rectangle and z
bbox_of(rect, z) ==
    BoundingBox_new(
        <<RMul(RInt(rect.x_min), scale), RMul(RInt(rect.y_min), scale), RNeg(z)>>,
        <<RMul(RInt(rect.x_max), scale), RMul(RInt(rect.y_max), scale), z>>)

\* the vertex constructor handed to BuffersBuilder: [x, y, z] of a scaled position
fill_vertex(i, z) ==
    <<RMul(RInt(Position(i)[1]), scale), RMul(RInt(Position(i)[2]), scale), z>>

\* bufs.vertices after tessellate_path succeeded
front_vertices(g, z) == [k \in 1..g.nv |-> fill_vertex(k - 1, z)]

\* .flat_map(|[a, b, c]| [(a, b), (b, c), (c, a)])
triangle_edges(t) == << <<t[1], t[2]>>, <<t[2], t[3]>>, <<t[3], t[1]>> >>

directed_edges(indices) ==
    LET ch == array_chunks(indices)
    IN  Flatten([k \in 1..Len(ch) |-> triangle_edges(ch[k])])

\* toggle without the removal: every key seen stays in the set
toggle_insert_only(set, e) ==
    set \cup {IF e[2] < e[1] THEN <<e[2], e[1]>> ELSE <<e[1], e[2]>>}

\* the closure of for_each: an occupied entry is removed, a vacant one inserted
toggle(set, e) ==
    LET key == IF e[2] < e[1] THEN <<e[2], e[1]>> ELSE <<e[1], e[2]>>
    IN  IF key \in set THEN set \ {key} ELSE set \cup {key}

RECURSIVE for_each_toggle(_, _)
for_each_toggle(edges, set) ==
    IF edges = <<>> THEN set
    ELSE for_each_toggle(Tail(edges), toggle(set, Head(edges)))

\* "find boundary edges": the edge set after the pass over the index buffer
find_boundary_edges(indices) == for_each_toggle(directed_edges(indices), {})

\* "add rear face", vertices: the front vertices again with v[2] = -z
rear_vertices(front, z) == [k \in 1..Len(front) |-> <<front[k][1], front[k][2], RNeg(z)>>]

\* "add rear face", indices: one copied chunk after std::mem::swap(a, c)
rear_triangle(t) == <<t[3], t[2], t[1]>>

rear_indices(front) ==
    LET ch == array_chunks(front)
    IN  Flatten([k \in 1..Len(ch) |-> rear_triangle(ch[k])])

\* side_quad with the second triangle of the wall left out
side_half(a, b, r) == <<a, b, b + r>>

\* "add sides": the six indices emitted for the key (a, b)
side_quad(a, b, r) == <<a, b, b + r, a + r, a, b + r>>

side_indices(keys, r) == Flatten([k \in 1..Len(keys) |-> side_quad(keys[k][1], keys[k][2], r)])

(***************************************************************************)
(* edge_set.into_keys(): a HashMap built with the default RandomState      *)
(* hands its keys out in an order the program does not fix; it may differ  *)
(* between two maps holding the same keys.  The model lets every call      *)
(* draw the order from the cyclic shifts of the ascending and of the       *)
(* descending key list.                                                    *)
(***************************************************************************)
KeyLess(k, l) == k[1] < l[1] \/ (k[1] = l[1] /\ k[2] < l[2])

RECURSIVE Ascending(_)
Ascending(S) ==
    IF S = {} THEN <<>>
    ELSE LET m == CHOOSE k \in S : \A l \in S \ {k} : KeyLess(k, l)
         IN  <<m>> \o Ascending(S \ {m})

Reverse(s) == [k \in 1..Len(s) |-> s[Len(s) + 1 - k]]

Shift(s, n) == [k \in 1..Len(s) |-> s[((k - 1 + n) % Len(s)) + 1]]

into_keys(S) ==
    IF S = {} THEN {<<>>}
    ELSE {Shift(Ascending(S), n) : n \in 0..(Cardinality(S) - 1)} \cup
         {Shift(Reverse(Ascending(S)), n) : n \in 0..(Cardinality(S) - 1)}

\* no_outline_result without the early return: the extruded box of an empty rectangle
no_outline_boxed ==
    Ok([Mesh_default EXCEPT !.bbox = bbox_of(NoOutline.rect, Half)])

\* the early return when outline_glyph yields None
no_outline_result == Ok(Mesh_default)

\* tessellation_failed with the error dropped and an empty mesh returned
tessellation_swallowed == Ok(Mesh_default)

\* tessellate_path(..).map_err(|e| Error::Tessellation(e))?
tessellation_failed == Err("Tessellation")

\* extruded_mesh with the side walls put before the rear face
extruded_sides_first(g, keys) ==
    LET z     == z_of(FALSE)
        front == front_vertices(g, z)
        r     == Len(front)
    IN  [bbox     |-> bbox_of(g.rect, z),
         indices  |-> g.indices \o side_indices(keys, r) \o rear_indices(g.indices),
         vertices |-> front \o rear_vertices(front, z)]

\* the mesh returned in extruded mode, with the side keys in the order drawn
extruded_mesh(g, keys) ==
    LET z           == z_of(FALSE)
        front       == front_vertices(g, z)
        v_base      == 0
        v_rear_base == Len(front)
        r           == v_rear_base - v_base
    IN  [bbox     |-> bbox_of(g.rect, z),
         indices  |-> g.indices \o rear_indices(g.indices) \o side_indices(keys, r),
         vertices |-> front \o rear_vertices(front, z)]

\* the mesh returned in flat mode
flat_mesh(g) ==
    LET z == z_of(TRUE)
    IN  [bbox |-> bbox_of(g.rect, z), indices |-> g.indices,
         vertices |-> front_vertices(g, z)]

generate_mesh(flat) ==
    /\ call' = [op |-> "generate_mesh", flat |-> flat]
    /\ IF ~glyph.outline
         THEN result' = no_outline_result /\ edge_set' = {}
       ELSE IF ~glyph.tess_ok
         THEN result' = tessellation_failed /\ edge_set' = {}
       ELSE IF flat
         THEN result' = Ok(flat_mesh(glyph)) /\ edge_set' = {}
       ELSE /\ edge_set' = find_boundary_edges(glyph.indices)
            /\ \E keys \in into_keys(find_boundary_edges(glyph.indices)) :
                   result' = Ok(extruded_mesh(glyph, keys))
    /\ UNCHANGED <<glyph, builderVars>>

(***************************************************************************)
(* mesh_generator.rs: MeshGenerator::make_mesh and make_indexed_mesh.      *)
(* util::raster_to_mesh and util::raster_to_mesh_indexed are not part of   *)
(* the sources at hand; they are modelled after sections 3 and 4.3 of      *)
(* the specification.                                                      *)
(***************************************************************************)
\* the wall of the boundary edge (a, b): (a, b, b+r) and (b+r, a+r, a)
raster_wall(a, b, r) == <<a, b, b + r, b + r, a + r, a>>

\* the back cap of one front triangle on the mirrored vertices
raster_rear(t, r) == <<t[3] + r, t[2] + r, t[1] + r>>

\* vertices and indices of the flat or extruded mesh of the glyph's tessellation
raster_to_mesh_indexed(g, flat) ==
    IF ~g.tess_ok THEN Err("MeshTextError")
    ELSE IF flat
      THEN Ok([vertices |-> front_vertices(g, Zero), indices |-> g.indices])
    ELSE LET front == front_vertices(g, Half)
             ch    == array_chunks(g.indices)
             keys  == Ascending(find_boundary_edges(g.indices))
             r     == g.nv
         IN  Ok([vertices |-> front \o rear_vertices(front, Half),
                 indices  |-> g.indices
                              \o Flatten([k \in 1..Len(ch) |-> raster_rear(ch[k], r)])
                              \o Flatten([k \in 1..Len(keys) |->
                                             raster_wall(keys[k][1], keys[k][2], r)])])

\* the same mesh with every index resolved into its vertex
raster_to_mesh(g, flat) ==
    LET m == raster_to_mesh_indexed(g, flat)
    IN  IF m.tag = "Err" THEN m
        ELSE Ok([k \in 1..Len(m.mesh.indices) |->
                    m.mesh.vertices[m.mesh.indices[k] + 1]])

\* let mut depth = (0.5f32, -0.5f32)
depth_extruded == <<Half, RNeg(Half)>>

\* depth = (0f32, 0f32), set when the glyph has no outline
depth_none == <<Zero, Zero>>

\* the rectangle substituted when the glyph has no outline
rect_none == [x_min |-> 0, y_min |-> 0, x_max |-> 0, y_max |-> 0]

\* "Add mesh to cache": the box of the rectangle over font_height, z from depth
make_bbox(rect, flat, depth) ==
    IF flat
    THEN [max |-> <<RDiv(RInt(rect.x_max), RInt(FaceHeight)),
                    RDiv(RInt(rect.y_max), RInt(FaceHeight)), Zero>>,
          min |-> <<RDiv(RInt(rect.x_min), RInt(FaceHeight)),
                    RDiv(RInt(rect.y_min), RInt(FaceHeight)), Zero>>]
    ELSE [max |-> <<RDiv(RInt(rect.x_max), RInt(FaceHeight)),
                    RDiv(RInt(rect.y_max), RInt(FaceHeight)), depth[1]>>,
          min |-> <<RDiv(RInt(rect.x_min), RInt(FaceHeight)),
                    RDiv(RInt(rect.y_min), RInt(FaceHeight)), depth[2]>>]

\* what make_mesh returns for the glyph: Ok((mesh, bbox)) or the rasterizer's error
make_mesh_result(g, flat) ==
    IF g.outline
    THEN LET m == raster_to_mesh(g, flat)
         IN  IF m.tag = "Err" THEN m
             ELSE Ok([vertices |-> m.mesh, bbox |-> make_bbox(g.rect, flat, depth_extruded)])
    ELSE Ok([vertices |-> <<>>, bbox |-> make_bbox(rect_none, flat, depth_none)])

\* what make_indexed_mesh returns: Ok((indices, vertices, bbox)) or the error
make_indexed_mesh_result(g, flat) ==
    IF g.outline
    THEN LET m == raster_to_mesh_indexed(g, flat)
         IN  IF m.tag = "Err" THEN m
             ELSE Ok([indices |-> m.mesh.indices, vertices |-> m.mesh.vertices,
                      bbox |-> make_bbox(g.rect, flat, depth_extruded)])
    ELSE Ok([indices |-> <<>>, vertices |-> <<>>,
             bbox |-> make_bbox(rect_none, flat, depth_none)])

make_mesh(flat) ==
    /\ call' = [op |-> "make_mesh", flat |-> flat]
    /\ result' = make_mesh_result(glyph, flat)
    /\ edge_set' = {}
    /\ UNCHANGED <<glyph, builderVars>>

make_indexed_mesh(flat) ==
    /\ call' = [op |-> "make_indexed_mesh", flat |-> flat]
    /\ result' = make_indexed_mesh_result(glyph, flat)
    /\ edge_set' = {}
    /\ UNCHANGED <<glyph, builderVars>>

MeshInit ==
    /\ glyph \in Glyphs
    /\ call = [op |-> "none", flat |-> FALSE]
    /\ result = NoResult
    /\ edge_set = {}

(***************************************************************************)
(* outline_builder.rs: OutlineBuilder.                                     *)
(***************************************************************************)
\* the points a drawing command may name, in font units
OnCurve == {<<RInt(0), RInt(0)>>, <<RInt(FaceHeight), RInt(0)>>}

\* the control points and the end point of the curves of the stream
Control1 == <<RInt(0), RInt(FaceHeight)>>

Control2 == <<RInt(FaceHeight), RInt(FaceHeight)>>

CurveEnd == <<RInt(FaceHeight), RInt(0)>>

\* OutlineBuilder.font_height
font_height == RInt(FaceHeight)

Qualities ==
    [quad_interpolation_steps : 1..MaxSteps, cubic_interpolation_steps : 1..MaxSteps]

\* the fields a drawing command works on
Fields == [contours |-> contours, current_contour |-> current_contour,
           points |-> points, current_point |-> current_point]

add_segment(b, p) ==
    [b EXCEPT !.current_point = p,
              !.current_contour = Append(b.current_contour, Len(b.points)),
              !.points = Append(b.points,
                                <<RDiv(p[1], font_height), RDiv(p[2], font_height)>>)]

lerp_points(a, b, t) ==
    <<RSub(a[1], RMul(RSub(a[1], b[1]), t)), RSub(a[2], RMul(RSub(a[2], b[2]), t))>>

point_on_quad(p0, p1, p2, t) ==
    lerp_points(lerp_points(p0, p1, t), lerp_points(p1, p2, t), t)

point_on_cubic(p0, p1, p2, p3, t) ==
    lerp_points(point_on_quad(p0, p1, p2, t), point_on_quad(p1, p2, p3, t), t)

\* the start point one step of quad_to or curve_to interpolates from
step_start(b) == b.current_point

\* quad_to with its range exclusive: for step in step..n
RECURSIVE quad_loop_exclusive(_, _, _, _, _)
quad_loop_exclusive(b, step, n, p1, p2) ==
    IF step >= n THEN b
    ELSE quad_loop_exclusive(
             add_segment(b, point_on_quad(step_start(b), p1, p2, Q(step, n))),
             step + 1, n, p1, p2)

\* for step in step..=n of quad_to
RECURSIVE quad_loop(_, _, _, _, _)
quad_loop(b, step, n, p1, p2) ==
    IF step > n THEN b
    ELSE quad_loop(add_segment(b, point_on_quad(step_start(b), p1, p2, Q(step, n))),
                   step + 1, n, p1, p2)

\* for step in step..=n of curve_to
RECURSIVE cubic_loop(_, _, _, _, _, _)
cubic_loop(b, step, n, p1, p2, p3) ==
    IF step > n THEN b
    ELSE cubic_loop(add_segment(b, point_on_cubic(step_start(b), p1, p2, p3, Q(step, n))),
                    step + 1, n, p1, p2, p3)

\* Vec::pop: the last element goes, an empty vector stays empty
pop(s) == IF s = <<>> THEN s ELSE SubSeq(s, 1, Len(s) - 1)

\* the builder's fields become b; the command c joins the stream
Store(b, c) ==
    /\ contours' = b.contours
    /\ current_contour' = b.current_contour
    /\ points' = b.points
    /\ current_point' = b.current_point
    /\ stream' = Append(stream, c)
    /\ UNCHANGED <<quality, outline, meshVars>>

Building == status = "building" /\ Len(stream) < MaxCmds

move_to(p) ==
    /\ Building
    /\ Store(add_segment(Fields, p), [op |-> "move_to", p |-> p])
    /\ UNCHANGED status

line_to(p) ==
    /\ Building
    /\ Store(add_segment(Fields, p), [op |-> "line_to", p |-> p])
    /\ UNCHANGED status

quad_to(p1, p2) ==
    /\ Building
    /\ Store(quad_loop(Fields, 1, quality.quad_interpolation_steps, p1, p2),
             [op |-> "quad_to", p1 |-> p1, p |-> p2])
    /\ UNCHANGED status

curve_to(p1, p2, p3) ==
    /\ Building
    /\ Store(cubic_loop(Fields, 1, quality.cubic_interpolation_steps, p1, p2, p3),
             [op |-> "curve_to", p1 |-> p1, p2 |-> p2, p |-> p3])
    /\ UNCHANGED status

\* close without its push: the contour is sealed as the indices it holds
seal_open(c) == c

\* self.current_contour.push(self.current_contour[0])
seal(c) == Append(c, c[1])

\* current_contour[0] panics when the contour is empty after its pop
close_panics(b) == pop(b.current_contour) = <<>>

\* close on the fields b: both pops, then the push of current_contour[0] and
\* the split_off into contours; a panic leaves the fields as the pops left them
close_fields(b) ==
    LET popped == [b EXCEPT !.points = pop(b.points),
                            !.current_contour = pop(b.current_contour)]
    IN  IF close_panics(b)
        THEN popped
        ELSE [popped EXCEPT
                !.contours = Append(b.contours, seal(popped.current_contour)),
                !.current_contour = <<>>]

close ==
    /\ Building
    /\ Store(close_fields(Fields), [op |-> "close"])
    /\ status' = IF close_panics(Fields) THEN "panicked" ELSE status

\* into_outline consumes the builder: the contours and points as they are
into_outline ==
    /\ status = "building"
    /\ outline' = [tag |-> "Outline", contours |-> contours, points |-> points]
    /\ status' = "consumed"
    /\ UNCHANGED <<quality, contours, current_contour, points, current_point, stream>>
    /\ UNCHANGED meshVars

\* OutlineBuilder::new
BuilderInit ==
    /\ quality \in Qualities
    /\ contours = <<>>
    /\ current_contour = <<>>
    /\ points = <<>>
    /\ current_point = <<RInt(0), RInt(0)>>
    /\ status = "building"
    /\ outline = [tag |-> "None"]
    /\ stream = <<>>

(***************************************************************************)
(* The two specifications.  Each leaves the other part of the state at     *)
(* rest.                                                                   *)
(***************************************************************************)
MeshAtRest ==
    /\ glyph = NoOutline
    /\ call = [op |-> "none", flat |-> FALSE]
    /\ result = NoResult
    /\ edge_set = {}

BuilderAtRest ==
    /\ quality = [quad_interpolation_steps |-> 1, cubic_interpolation_steps |-> 1]
    /\ contours = <<>>
    /\ current_contour = <<>>
    /\ points = <<>>
    /\ current_point = <<RInt(0), RInt(0)>>
    /\ status = "building"
    /\ outline = [tag |-> "None"]
    /\ stream = <<>>

Init == MeshInit /\ BuilderAtRest

Next ==
    \/ \E flat \in BOOLEAN : generate_mesh(flat)
    \/ \E flat \in BOOLEAN : make_mesh(flat)
    \/ \E flat \in BOOLEAN : make_indexed_mesh(flat)

Spec == Init /\ [][Next]_vars

InitBuilder == BuilderInit /\ MeshAtRest

NextBuilder ==
    \/ \E p \in OnCurve : move_to(p)
    \/ \E p \in OnCurve : line_to(p)
    \/ quad_to(Control1, CurveEnd)
    \/ curve_to(Control1, Control2, CurveEnd)
    \/ close
    \/ into_outline

SpecBuilder == InitBuilder /\ [][NextBuilder]_vars

(***************************************************************************)
(* Properties of the mesh generator.                                       *)
(***************************************************************************)
\* the last call was generate_mesh on a glyph that tessellated, and it returned
GenOk == call.op = "generate_mesh" /\ glyph.outline /\ result.tag = "Ok"

Extruded == GenOk /\ ~call.flat

FrontTris == array_chunks(glyph.indices)

MeshTris == array_chunks(result.mesh.indices)

\* the undirected edges lying in exactly one triangle of the list
BoundaryKeys(ts) == {k \in AllKeys(ts) : EdgeCount(ts, k) = 1}

\* the directed edges a triangle traverses
Traverses(t) == Range(triangle_edges(t))

UnitSquare == <<0, 1, 2, 0, 2, 3>>

\* C1: in extruded mode, when every undirected front edge lies in one or two
\* front triangles, every undirected edge of the returned mesh (front cap,
\* back cap and side walls) lies in exactly two of its triangles.
C1_Watertight ==
    (Extruded /\ \A k \in AllKeys(FrontTris) : EdgeCount(FrontTris, k) \in {1, 2})
        => \A k \in AllKeys(MeshTris) : EdgeCount(MeshTris, k) = 2

\* C2: in extruded mode the k-th triangle of the back-cap section is the k-th
\* front triangle (a, b, c) reversed and re-based by r, the front vertex count:
\* (c+r, b+r, a+r); every vertex it references has z = -0.5.
C2_BackCapMirrored ==
    Extruded =>
        \A k \in 1..Len(FrontTris) :
            LET t == FrontTris[k]
                r == glyph.nv
                b == MeshTris[Len(FrontTris) + k]
            IN  /\ b = <<t[3] + r, t[2] + r, t[1] + r>>
                /\ \A i \in Range(b) : result.mesh.vertices[i + 1][3] = RNeg(Half)

\* C3: a call of generate_mesh repeated with the same glyph and the same flat
\* flag returns the same result, buffers equal element for element.
C3_Idempotent ==
    [][(call.op = "generate_mesh" /\ call' = call) => result' = result]_vars

\* C4: the edge set left by the toggle pass is exactly the set of undirected
\* edges lying in exactly one front triangle, holds no edge shared by two
\* triangles, and is the same for every visiting order of the triangles.
C4_BoundaryEdges ==
    Extruded =>
        /\ edge_set = BoundaryKeys(FrontTris)
        /\ \A k \in AllKeys(FrontTris) : EdgeCount(FrontTris, k) = 2 => k \notin edge_set
        /\ \A p \in Permutations(1..Len(FrontTris)) :
               find_boundary_edges(
                   Flatten([i \in 1..Len(FrontTris) |-> FrontTris[p[i]]])) = edge_set

\* C4 witness: an extruded unit square, whose diagonal (0, 2) cancelled
C4_Witness ==
    /\ Extruded
    /\ glyph.indices = UnitSquare
    /\ edge_set = {<<0, 1>>, <<1, 2>>, <<2, 3>>, <<0, 3>>}

\* C5: with F front triangles, V front vertices and B boundary edges the
\* extruded mesh has 2V vertices, V at z = +0.5 followed by V at z = -0.5,
\* and 2F + 2B triangles, an index buffer of length 3(2F + 2B); the unit
\* square gives 8 vertices, 12 triangles and 36 indices.
C5_ExtrusionSize ==
    Extruded =>
        LET F == Len(FrontTris)
            V == glyph.nv
            B == Cardinality(BoundaryKeys(FrontTris))
            m == result.mesh
        IN  /\ Len(m.vertices) = 2 * V
            /\ \A i \in 1..V : m.vertices[i][3] = Half /\ m.vertices[V + i][3] = RNeg(Half)
            /\ Len(MeshTris) = 2 * F + 2 * B
            /\ Len(m.indices) = 3 * (2 * F + 2 * B)
            /\ glyph.indices = UnitSquare =>
                   Len(m.vertices) = 8 /\ Len(MeshTris) = 12 /\ Len(m.indices) = 36

\* C5 witness: the extruded unit square has been returned
C5_Witness ==
    /\ Extruded
    /\ glyph.indices = UnitSquare
    /\ Len(result.mesh.indices) = 36

\* C6: for every boundary edge that its front triangle traverses as u -> v,
\* some wall triangle holds u and v, and every wall triangle holding both
\* traverses the edge as v -> u.
C6_WallOrientation ==
    Extruded =>
        \A k \in 1..Len(FrontTris) :
            \A e \in Traverses(FrontTris[k]) :
                Key(e[1], e[2]) \in BoundaryKeys(FrontTris) =>
                    LET walls == {j \in (2 * Len(FrontTris) + 1)..Len(MeshTris) :
                                     {e[1], e[2]} \subseteq Range(MeshTris[j])}
                    IN  /\ walls # {}
                        /\ \A j \in walls : <<e[2], e[1]>> \in Traverses(MeshTris[j])

\* C7: for a glyph without outline every generator returns Ok with no
\* vertices, no indices and a box whose corners are both (0, 0, 0), whatever
\* the flat flag.
C7_EmptyGlyph ==
    (~glyph.outline /\ result.tag # "None") =>
        /\ result.tag = "Ok"
        /\ result.mesh.vertices = <<>>
        /\ call.op # "make_mesh" => result.mesh.indices = <<>>
        /\ IF call.op = "generate_mesh"
           THEN /\ result.mesh.bbox.mins = <<Zero, Zero, Zero>>
                /\ result.mesh.bbox.maxs = <<Zero, Zero, Zero>>
           ELSE /\ result.mesh.bbox.min = <<Zero, Zero, Zero>>
                /\ result.mesh.bbox.max = <<Zero, Zero, Zero>>

\* C7 witness: generate_mesh returned for a glyph without outline, extruded mode
C7_Witness ==
    ~glyph.outline /\ call.op = "generate_mesh" /\ ~call.flat /\ result.tag = "Ok"

\* C8: when the tessellation of a glyph with an outline fails, every
\* generator returns the error and nothing else: no mesh, no buffers.
C8_FailurePropagation ==
    (glyph.outline /\ ~glyph.tess_ok /\ result.tag # "None") =>
        /\ result.tag = "Err"
        /\ DOMAIN result = {"tag", "error"}
        /\ call.op = "generate_mesh" => result.error = "Tessellation"

\* C8 witness: generate_mesh, extruded mode, failed on a glyph with an outline
C8_Witness ==
    /\ glyph.outline /\ ~glyph.tess_ok /\ glyph.indices # <<>>
    /\ call.op = "generate_mesh" /\ ~call.flat
    /\ result.tag = "Err"

\* the last call was generate_mesh in flat mode on a glyph that tessellated
Flat == GenOk /\ call.flat

\* C14: in extruded mode the vertex buffer is the V front vertices, which are
\* those of flat mode at z = +0.5, followed by their V copies at z = -0.5,
\* vertex i + V copying the x and y of vertex i; the index buffer is the
\* front cap, equal to the index buffer of flat mode, then the back cap, one
\* reversed triangle per front triangle on the vertices or their copies,
\* then the side walls, one quad of six indices per boundary edge.
C14_BufferLayout ==
    Extruded =>
        LET V  == glyph.nv
            F  == Len(FrontTris)
            BK == BoundaryKeys(FrontTris)
            B  == Cardinality(BK)
            m  == result.mesh
            fm == flat_mesh(glyph)
            wall(q) == SubSeq(m.indices, 6 * F + 6 * (q - 1) + 1, 6 * F + 6 * q)
            corners(k) == {k[1], k[2], k[1] + V, k[2] + V}
        IN  /\ Len(m.vertices) = 2 * V
            /\ Len(fm.vertices) = V
            /\ \A i \in 1..V :
                   /\ m.vertices[i] = <<fm.vertices[i][1], fm.vertices[i][2], Half>>
                   /\ m.vertices[i + V] =
                          <<m.vertices[i][1], m.vertices[i][2], RNeg(Half)>>
            /\ Len(m.indices) = 6 * F + 6 * B
            /\ SubSeq(m.indices, 1, 3 * F) = fm.indices
            /\ \A k \in 1..F : \A j \in 1..3 :
                   MeshTris[F + k][j] \in {FrontTris[k][4 - j], FrontTris[k][4 - j] + V}
            /\ \A q \in 1..B : \E k \in BK : Range(wall(q)) = corners(k)
            /\ \A k \in BK : \E q \in 1..B : Range(wall(q)) = corners(k)

\* C14 witness: the extruded unit square, whose back cap follows the six
\* indices of the front cap and whose four walls follow the back cap
C14_Witness ==
    /\ Extruded
    /\ glyph.indices = UnitSquare
    /\ SubSeq(result.mesh.indices, 1, 6) = UnitSquare
    /\ Len(result.mesh.indices) = 36
    /\ result.mesh.vertices[5] = <<Zero, Zero, RNeg(Half)>>

\* C15: generate_mesh in flat mode returns the vertices of the triangulation
\* with z = 0, its index triples in their order with no back cap and no side
\* wall after them, and a bounding box of z-extent zero.
C15_FlatMode ==
    Flat =>
        LET m == result.mesh
        IN  /\ m.vertices =
                   [k \in 1..glyph.nv |->
                       <<RMul(RInt(Position(k - 1)[1]), scale),
                         RMul(RInt(Position(k - 1)[2]), scale), Zero>>]
            /\ m.indices = glyph.indices
            /\ m.bbox.mins[3] = Zero /\ m.bbox.maxs[3] = Zero

\* C15 witness: the flat unit square, four vertices and two triangles
C15_Witness ==
    /\ Flat
    /\ glyph.indices = UnitSquare
    /\ Len(result.mesh.vertices) = 4
    /\ result.mesh.indices = UnitSquare

(***************************************************************************)
(* Properties of the outline builder.                                      *)
(***************************************************************************)
Segment(c) == c.op \in {"line_to", "quad_to", "curve_to"}

\* the stream holds a move_to, then one or more segments and no close, then
\* another move_to or the end of the stream
LeftOpen ==
    \E i \in 1..Len(stream) :
        /\ stream[i].op = "move_to"
        /\ \E j \in (i + 2)..(Len(stream) + 1) :
               /\ j = Len(stream) + 1 \/ stream[j].op = "move_to"
               /\ \A k \in (i + 1)..(j - 1) : Segment(stream[k])

\* a point in font units as add_segment stores it
Stored(p) == <<RDiv(p[1], font_height), RDiv(p[2], font_height)>>

\* C9: once the builder of a stream that left a contour unclosed has been
\* turned into an outline, the outcome is an error, not an outline.
C9_OpenContourRejected ==
    (status = "consumed" /\ LeftOpen) => outline.tag = "Err"

\* C10: quad_to appends, for each step in 1..=quad steps, the point at
\* t = step / steps of the quadratic curve that starts at the current point
\* of the moment of the call, and nothing else; curve_to does the same with
\* the cubic steps and the cubic curve.
C10_CurveFlattening ==
    [][(status = "building" /\ Len(stream') = Len(stream) + 1) =>
          LET c  == stream'[Len(stream')]
              nq == quality.quad_interpolation_steps
              nc == quality.cubic_interpolation_steps
          IN  /\ c.op = "quad_to" =>
                    points' = points \o
                        [k \in 1..nq |->
                            Stored(point_on_quad(current_point, c.p1, c.p, Q(k, nq)))]
              /\ c.op = "curve_to" =>
                    points' = points \o
                        [k \in 1..nc |->
                            Stored(point_on_cubic(current_point, c.p1, c.p2, c.p, Q(k, nc)))]
      ]_vars

\* the step is the command c of the stream
Issued(c) == Len(stream') = Len(stream) + 1 /\ stream'[Len(stream')] = c

\* C11: when close is called on a contour whose last appended point differs
\* from the contour's first point, no point is discarded: the point list is
\* kept as it is and the sealed contour holds every index appended since
\* move_to.
C11_CloseKeepsDistinctLast ==
    [][(Issued([op |-> "close"]) /\ Len(current_contour) >= 2
          /\ points[Len(points)] # points[current_contour[1] + 1]) =>
          /\ points' = points
          /\ Len(contours') = Len(contours) + 1
          /\ Range(current_contour) \subseteq Range(contours'[Len(contours')])
      ]_vars

\* the sealed contours of the builder
Sealed == Range(contours)

\* C12, as stated: every sealed contour is a sequence of pairwise distinct
\* point indices, the first index not being stored again at the end.
C12_ContourDistinct ==
    \A c \in Sealed :
        \A i, j \in 1..Len(c) : i # j => c[i] # c[j]

\* C12, amended: every sealed contour is a strictly increasing, hence pairwise
\* distinct, sequence of one or more point indices followed by one trailing
\* copy of its first index, the closing edge being stored.
C12_ContourClosed ==
    \A c \in Sealed :
        /\ Len(c) >= 2
        /\ c[Len(c)] = c[1]
        /\ \A i, j \in 1..(Len(c) - 1) : i < j => c[i] < c[j]

\* a triangle's contour has been sealed: two indices and the first again
C12_Witness ==
    /\ status = "building"
    /\ <<0, 1, 0>> \in Sealed

\* C13: move_to starts a new contour whatever came before it: right after
\* move_to the current contour is exactly the index of the point move_to
\* recorded, so no index of an earlier contour shares a contour with it.
C13_MoveToStartsContour ==
    [][\A p \in OnCurve :
          Issued([op |-> "move_to", p |-> p]) =>
              current_contour' = <<Len(points') - 1>>
      ]_vars

\* what a stream of commands does to the number of stored points and to the
\* length of the open contour of a builder of quality q: a move_to or a
\* line_to adds one to both, a quad_to the quad steps, a curve_to the cubic
\* steps; a close takes one from both and then empties the contour, or
\* panics, ending the run, when the contour held one index or none
Grown(k, n) == [k EXCEPT !.points = @ + n, !.contour = @ + n]

Less(n) == IF n = 0 THEN 0 ELSE n - 1

Counted(k, c, q) ==
    IF k.panicked THEN k
    ELSE IF c.op \in {"move_to", "line_to"} THEN Grown(k, 1)
    ELSE IF c.op = "quad_to" THEN Grown(k, q.quad_interpolation_steps)
    ELSE IF c.op = "curve_to" THEN Grown(k, q.cubic_interpolation_steps)
    ELSE [points |-> Less(k.points), contour |-> 0, panicked |-> k.contour <= 1]

RECURSIVE CountRun(_, _, _)
CountRun(k, cs, q) ==
    IF cs = <<>> THEN k ELSE CountRun(Counted(k, Head(cs), q), Tail(cs), q)

StreamCount(q) ==
    CountRun([points |-> 0, contour |-> 0, panicked |-> FALSE], stream, q)

\* a quality with no fewer steps of either kind than the builder's
NoCoarser(q) ==
    /\ q.quad_interpolation_steps >= quality.quad_interpolation_steps
    /\ q.cubic_interpolation_steps >= quality.cubic_interpolation_steps

\* C16: every quad_to of the stream appended exactly quad steps points and
\* every curve_to exactly cubic steps points, so that the builder holds the
\* number of points counted along its stream; and the same stream, counted
\* with no fewer quad steps and no fewer cubic steps, gives at least as many
\* points.
C16_QualityMonotone ==
    /\ Len(points) = StreamCount(quality).points
    /\ Len(current_contour) = StreamCount(quality).contour
    /\ (status = "panicked") = StreamCount(quality).panicked
    /\ \A q \in Qualities :
           NoCoarser(q) => StreamCount(q).points >= Len(points)

\* C16 witness: a quadratic and a cubic curve and a close went through a
\* builder of one quad step and two cubic steps, which a finer quality
\* leaves more points for
C16_Witness ==
    /\ status = "building"
    /\ quality = [quad_interpolation_steps |-> 1, cubic_interpolation_steps |-> 2]
    /\ Len(stream) = 4
    /\ \E i, j, k \in 1..4 :
           stream[i].op = "quad_to" /\ stream[j].op = "curve_to" /\ stream[k].op = "close"
    /\ \E q \in Qualities : NoCoarser(q) /\ StreamCount(q).points > Len(points)

\* C17: a sealed contour stays as it was sealed and keeps its points, whatever
\* command follows, a close with no move_to before it included: in every
\* state of the builder every index of every sealed contour is smaller than
\* the number of stored points.
C17_SealedStable ==
    \A c \in Sealed :
        \A i \in 1..Len(c) : c[i] < Len(points)

=============================================================================
